---- MODULE Spec2Model ----
(***************************************************************************)
(* Model of numerai-electric/app.py: the Flask application's global state  *)
(* (CONFIG, SYSTEM_STATE), its start-up (initialize_system) and its        *)
(* request handlers, run by the threaded development server.               *)
(*                                                                         *)
(* A handler is cut into steps at every access to shared state             *)
(* (SYSTEM_STATE, the wall clock); between two steps of one handler the    *)
(* steps of the other handler threads may run.  One call of a built-in     *)
(* on a list (append, len, slicing, str.join) is one step, and so is       *)
(* logger.info, which touches none of this state.  Each call of            *)
(* datetime.datetime.now() returns a later time than the call before it.   *)
(*                                                                         *)
(* The clients first send a load of /api/test requests, one at a time      *)
(* (phase "warm"), which fills the log up to its cap; then (phase "open")  *)
(* they send a few requests of any kind: overlapping under Spec, one       *)
(* after the other and over every route under SerialSpec.                  *)
(***************************************************************************)
EXTENDS Integers, Sequences, FiniteSets, TLC

VARIABLES
    CONFIG,        \* app.py:25  the global configuration dict
    SYSTEM_STATE,  \* app.py:35  the global state dict
    now,           \* the wall clock read by datetime.datetime.now()
    network,       \* what the two public-IP probes of get_public_ip meet
    thr,           \* the handler threads: position and local variables
    phase,         \* "boot", "crashed", "warm" (serial /api/test load), "open"
    warm,          \* requests accepted in the warm phase
    served,        \* requests accepted in the open phase
    appended,      \* history: every entry list.append has added, in order
    before         \* history: SYSTEM_STATE as the last request served alone met it

vars == <<CONFIG, SYSTEM_STATE, now, network, thr, phase, warm, served, appended,
          before>>

(***************************************************************************)
(* Bounds of the model                                                     *)
(***************************************************************************)
\* open-phase requests when handlers may overlap
MaxRequests == 3
\* open-phase requests when requests are served one at a time
MaxSerial == 3
\* longest warm-up: enough appends to pass the cap by several entries
MaxWarm == 55
\* the open phase may start this many entries short of the cap
WarmSlack == 2

Threads == {1, 2}

(***************************************************************************)
(* Constants of the program                                                *)
(***************************************************************************)
LogCap == 50
LogKeep == 50
IndexShown == 20

None == "None"
Absent == "<absent>"

\* routes whose view calls log_event, and the message each one logs
LogMessage ==
    [x \in {"/health", "/api/numerai", "/api/predictions", "/api/signals",
            "/api/predict", "/api/train", "/api/repl", "/api/test"} |->
        CASE x = "/health"          -> "Health check requested"
          [] x = "/api/numerai"     -> "Numerai data requested"
          [] x = "/api/predictions" -> "Predictions requested"
          [] x = "/api/signals"     -> "Trading signals requested"
          [] x = "/api/predict"     -> "Prediction job started"
          [] x = "/api/train"       -> "Model training started"
          [] x = "/api/repl"        -> "REPL interface accessed"
          [] x = "/api/test"        -> "Test endpoint executed"]

LogRoutes == DOMAIN LogMessage

\* the URL map built by the @app.route decorators
Routes == LogRoutes \cup {"/", "/api/status", "/api/logs"}

\* a path no @app.route registers
UnknownPath == "/no/such/route"

\* values of the query parameter "format" a client may send
Formats == {Absent, "download", "json", "csv"}

Requests ==
    {[route |-> r, format |-> Absent] : r \in Routes \cup {UnknownPath}}
    \cup {[route |-> "/api/logs", format |-> f] : f \in Formats}

\* the requests sent while handlers overlap: one per shape of handler
OverlapRequests ==
    {[route |-> r, format |-> Absent] :
        r \in {"/health", "/", "/api/logs", UnknownPath}}
    \cup {[route |-> "/api/logs", format |-> "download"]}

(***************************************************************************)
(* Python built-ins                                                        *)
(***************************************************************************)
\* l[-n:] for n > 0
SliceLast(l, n) ==
    IF Len(l) <= n THEN l ELSE SubSeq(l, Len(l) - n + 1, Len(l))

\* datetime.isoformat(): the text of a clock value
IsoFormat(t) == ToString(t)

\* sep.join(l), as the sequence of its pieces
RECURSIVE Join(_, _)
Join(sep, l) ==
    IF l = <<>> THEN <<>>
    ELSE IF Len(l) = 1 THEN <<l[1]>>
    ELSE <<l[1], sep>> \o Join(sep, SubSeq(l, 2, Len(l)))

Whitespace == {" ", "\n", "\t"}

\* str.strip() of a text given as its pieces
RECURSIVE Strip(_)
Strip(s) ==
    IF s = <<>> THEN s
    ELSE IF s[1] \in Whitespace THEN Strip(SubSeq(s, 2, Len(s)))
    ELSE IF s[Len(s)] \in Whitespace THEN Strip(SubSeq(s, 1, Len(s) - 1))
    ELSE s

RECURSIVE Text(_)
Text(s) == IF s = <<>> THEN "" ELSE s[1] \o Text(SubSeq(s, 2, Len(s)))

\* request.args.get(key, default)
ArgsGet(arg, default) == IF arg = Absent THEN default ELSE arg

(***************************************************************************)
(* get_public_ip                                                           *)
(***************************************************************************)
\* requests.get('https://ipinfo.io/ip', timeout=5): an exception (no
\* requests module, no connection, timeout) or a response with a body
HttpOutcomes ==
    {[raised |-> TRUE, text |-> <<>>],
     [raised |-> FALSE, text |-> <<"203.0.113.7", "\n">>]}

\* the UDP socket connect to 8.8.8.8 and getsockname()
SocketOutcomes ==
    {[raised |-> TRUE, ip |-> ""],
     [raised |-> FALSE, ip |-> "10.0.0.5"]}

\* the inner try/except of get_public_ip
SocketFallbackUnguarded(sock) ==
    IF sock.raised THEN [raised |-> TRUE, value |-> None]
    ELSE [raised |-> FALSE, value |-> sock.ip]

SocketFallback(sock) ==
    IF sock.raised THEN [raised |-> FALSE, value |-> "unknown"]
    ELSE [raised |-> FALSE, value |-> sock.ip]

get_public_ip(http, sock) ==
    IF http.raised THEN SocketFallback(sock)
    ELSE [raised |-> FALSE, value |-> Text(Strip(http.text))]

(***************************************************************************)
(* log_event, as run by one thread with no other thread running            *)
(***************************************************************************)
\* f"{timestamp} - {message}"
LogEntry(t, message) == IsoFormat(t) \o " - " \o message

TooLong(logs) == Len(logs) > LogCap

KeepLastButOne(logs) == SliceLast(logs, LogKeep - 1)

\* SYSTEM_STATE['logs'][-50:]
KeepLast(logs) == SliceLast(logs, LogKeep)

log_event(logs, t, message) ==
    LET added == Append(logs, LogEntry(t, message))
    IN  IF TooLong(added) THEN KeepLast(added) ELSE added

\* a probe get_public_ip has not made
Unprobed == [raised |-> FALSE, text |-> <<>>, ip |-> "unprobed"]

(***************************************************************************)
(* Initial state: the module has been loaded                               *)
(***************************************************************************)
NoResponse == [status |-> 0]

IdleThread ==
    [pc |-> "idle", route |-> "", format |-> "", loaded |-> 0, incs |-> 0,
     entry |-> "", list |-> <<>>, live |-> FALSE, count |-> 0, total |-> 0,
     stamp |-> 0, resp |-> NoResponse]

Init ==
    /\ CONFIG = [host |-> "0.0.0.0", port |-> 42857, debug |-> TRUE,
                 domain |-> "electric.lab.uprootiny.dev",
                 public_ip |-> None, version |-> "3.0-numerai-electric"]
    /\ SYSTEM_STATE = [start_time |-> 0, request_count |-> 0, logs |-> <<>>,
                       trading_signals |-> <<>>, model_predictions |-> <<>>,
                       market_data |-> <<>>,
                       numerai_status |-> "active/training"]
    /\ now = 0
    /\ network = [http |-> Unprobed, sock |-> Unprobed]
    /\ thr = [t \in Threads |-> IdleThread]
    /\ phase = "boot"
    /\ warm = 0
    /\ served = 0
    /\ appended = <<>>
    /\ before = SYSTEM_STATE

(***************************************************************************)
(* initialize_system, run by the main thread before app.run                *)
(***************************************************************************)
StartupMessages(config) ==
    <<"Numerai Electric Trading Lab starting - Version " \o config.version,
      "Configuration: " \o config.public_ip,
      "All systems initialized and ready">>

InitializeSystem ==
    /\ phase = "boot"
    /\ \E http \in HttpOutcomes, sock \in SocketOutcomes :
       LET ip == get_public_ip(http, sock)
       IN
       /\ network' = [http |-> http,
                      sock |-> IF http.raised THEN sock ELSE Unprobed]
       /\ IF ip.raised
           THEN /\ phase' = "crashed"
                /\ UNCHANGED <<CONFIG, SYSTEM_STATE, now, appended, before>>
           ELSE LET config == [CONFIG EXCEPT !.public_ip = ip.value]
                    m == StartupMessages(config)
                    l1 == log_event(SYSTEM_STATE.logs, now, m[1])
                    l2 == log_event(l1, now + 1, m[2])
                    l3 == log_event(l2, now + 2, m[3])
                IN  /\ CONFIG' = config
                    /\ SYSTEM_STATE' =
                          [SYSTEM_STATE EXCEPT
                              !.logs = l3,
                              !.numerai_status = "active/456/3/ready"]
                    /\ now' = now + 3
                    /\ appended' = appended \o
                          <<LogEntry(now, m[1]), LogEntry(now + 1, m[2]),
                            LogEntry(now + 2, m[3])>>
                    /\ phase' = "warm"
    /\ UNCHANGED <<thr, warm, served, before>>

(***************************************************************************)
(* The server: a request is accepted and handed to a handler thread        *)
(***************************************************************************)
AllIdle == \A t \in Threads : thr[t].pc = "idle"

\* Flask's full_dispatch_request runs the before_request functions first,
\* for every request, and only then matches the URL
FirstStepRoutedOnly(route) ==
    IF route \in Routes THEN "before_request" ELSE "not_found"

FirstStep(route) == "before_request"

DispatchBase(route, format) ==
    IF route \notin Routes THEN "not_found"
    ELSE IF route \in LogRoutes THEN "log_timestamp"
    ELSE IF route = "/" THEN "index_count"
    ELSE IF route = "/api/status" THEN "status"
    ELSE IF ArgsGet(format, "json") = "download" THEN "logs_download"
    ELSE "logs_ref"

DispatchReplSilent(route, format) ==
    IF route = "/api/repl" THEN "static" ELSE DispatchBase(route, format)

DispatchTrainSilent(route, format) ==
    IF route = "/api/train" THEN "static" ELSE DispatchBase(route, format)

DispatchStrictFormat(route, format) ==
    IF route \notin Routes THEN "not_found"
    ELSE IF route \in LogRoutes THEN "log_timestamp"
    ELSE IF route = "/" THEN "index_count"
    ELSE IF route = "/api/status" THEN "status"
    ELSE IF ArgsGet(format, "json") = "download" THEN "logs_download"
    ELSE IF ArgsGet(format, "json") = "json" THEN "logs_ref"
    ELSE "not_found"

\* where the request goes once the before_request functions have returned
Dispatch(route, format) ==
    IF route \notin Routes THEN "not_found"
    ELSE IF route \in LogRoutes THEN "log_timestamp"
    ELSE IF route = "/" THEN "index_count"
    ELSE IF route = "/api/status" THEN "status"
    ELSE IF ArgsGet(format, "json") = "download" THEN "logs_download"
    ELSE "logs_ref"

\* the first idle thread takes the request (a thread per request: which
\* thread it is makes no difference)
Accept(t, rq) ==
    /\ thr[t].pc = "idle"
    /\ \A u \in Threads : u < t => thr[u].pc # "idle"
    /\ thr' = [thr EXCEPT ![t] = [IdleThread EXCEPT
                  !.pc = FirstStep(rq.route),
                  !.route = rq.route,
                  !.format = rq.format]]

\* the load: one /api/test request at a time
WarmRequest(t) ==
    /\ phase = "warm"
    /\ warm < MaxWarm
    /\ AllIdle
    /\ Accept(t, [route |-> "/api/test", format |-> Absent])
    /\ warm' = warm + 1
    /\ before' = SYSTEM_STATE
    /\ UNCHANGED <<CONFIG, SYSTEM_STATE, now, network, phase, served, appended>>

\* the load ends with the log empty of requests, near its cap, or well past it
OpenDoors ==
    /\ phase = "warm"
    /\ AllIdle
    /\ \/ warm = 0
       \/ warm = MaxWarm
       \/ Len(appended) \in (LogCap - WarmSlack)..LogCap
    /\ phase' = "open"
    /\ UNCHANGED <<CONFIG, SYSTEM_STATE, now, network, thr, warm, served, appended, before>>

\* any request, while other requests are being handled
OverlapRequest(t, rq) ==
    /\ phase = "open"
    /\ served < MaxRequests
    /\ Accept(t, rq)
    /\ served' = served + 1
    /\ UNCHANGED <<CONFIG, SYSTEM_STATE, now, network, phase, warm, appended, before>>

\* any request, once the request before it has been answered
SerialRequest(t, rq) ==
    /\ phase = "open"
    /\ served < MaxSerial
    /\ AllIdle
    /\ Accept(t, rq)
    /\ served' = served + 1
    /\ before' = SYSTEM_STATE
    /\ UNCHANGED <<CONFIG, SYSTEM_STATE, now, network, phase, warm, appended>>

(***************************************************************************)
(* before_request -> increment_request_count                               *)
(*   SYSTEM_STATE['request_count'] += 1  is a load, an add and a store     *)
(***************************************************************************)
IncrementedNot(n) == n

\* the add of  += 1
Incremented(n) == n + 1

IncrementLoad(t) ==
    /\ thr[t].pc = "before_request"
    /\ thr' = [thr EXCEPT ![t].loaded = SYSTEM_STATE.request_count,
                          ![t].incs = @ + 1,
                          ![t].pc = "increment_store"]
    /\ UNCHANGED <<CONFIG, SYSTEM_STATE, now, network, phase, warm, served, appended, before>>

IncrementStore(t) ==
    /\ thr[t].pc = "increment_store"
    /\ SYSTEM_STATE' = [SYSTEM_STATE EXCEPT !.request_count = Incremented(thr[t].loaded)]
    /\ thr' = [thr EXCEPT ![t].loaded = 0,
                          ![t].pc = Dispatch(thr[t].route, thr[t].format)]
    /\ UNCHANGED <<CONFIG, now, network, phase, warm, served, appended, before>>

(***************************************************************************)
(* log_event, step by step                                                 *)
(***************************************************************************)
\* the view to return to when log_event is done
AfterLog(route) == IF route = "/health" THEN "health" ELSE "static"

LogTimestamp(t) ==
    /\ thr[t].pc = "log_timestamp"
    /\ thr' = [thr EXCEPT ![t].entry = LogEntry(now, LogMessage[thr[t].route]),
                          ![t].pc = "log_append"]
    /\ now' = now + 1
    /\ UNCHANGED <<CONFIG, SYSTEM_STATE, network, phase, warm, served, appended, before>>

LogAppend(t) ==
    /\ thr[t].pc = "log_append"
    /\ SYSTEM_STATE' = [SYSTEM_STATE EXCEPT !.logs = Append(@, thr[t].entry)]
    /\ appended' = Append(appended, thr[t].entry)
    /\ thr' = [thr EXCEPT ![t].entry = "", ![t].pc = "log_check"]
    /\ UNCHANGED <<CONFIG, now, network, phase, warm, served, before>>

LogCheck(t) ==
    /\ thr[t].pc = "log_check"
    /\ thr' = [thr EXCEPT ![t].pc =
                  IF TooLong(SYSTEM_STATE.logs) THEN "log_slice"
                  ELSE AfterLog(thr[t].route)]
    /\ UNCHANGED <<CONFIG, SYSTEM_STATE, now, network, phase, warm, served, appended, before>>

LogSlice(t) ==
    /\ thr[t].pc = "log_slice"
    /\ thr' = [thr EXCEPT ![t].list = KeepLast(SYSTEM_STATE.logs),
                          ![t].pc = "log_store"]
    /\ UNCHANGED <<CONFIG, SYSTEM_STATE, now, network, phase, warm, served, appended, before>>

\* SYSTEM_STATE['logs'] = <the slice>: the dict now names a new list; a
\* thread that holds the old list keeps it as it was
LogStore(t) ==
    /\ thr[t].pc = "log_store"
    /\ SYSTEM_STATE' = [SYSTEM_STATE EXCEPT !.logs = thr[t].list]
    /\ thr' = [u \in Threads |->
                  IF u = t
                  THEN [thr[t] EXCEPT !.list = <<>>, !.pc = AfterLog(thr[t].route)]
                  ELSE IF thr[u].live
                  THEN [thr[u] EXCEPT !.live = FALSE, !.list = SYSTEM_STATE.logs]
                  ELSE thr[u]]
    /\ UNCHANGED <<CONFIG, now, network, phase, warm, served, appended, before>>

(***************************************************************************)
(* The views                                                               *)
(***************************************************************************)
\* jsonify(body)
Json(body) == [status |-> 200, mimetype |-> "application/json", body |-> body]

\* a str returned by a view, or render_template_string
Html(body) == [status |-> 200, mimetype |-> "text/html", body |-> body]

\* time.time() - SYSTEM_STATE['start_time']
Uptime == now - SYSTEM_STATE.start_time

Respond(t, response) ==
    thr' = [thr EXCEPT ![t] = [IdleThread EXCEPT
               !.pc = "done",
               !.route = thr[t].route,
               !.format = thr[t].format,
               !.incs = thr[t].incs,
               !.resp = response]]

\* a URL the map does not hold: werkzeug's NotFound, answered with 404
NotFound(t) ==
    /\ thr[t].pc = "not_found"
    /\ Respond(t, [status |-> 404, mimetype |-> "text/html",
                   body |-> [error |-> "Not Found"]])
    /\ UNCHANGED <<CONFIG, SYSTEM_STATE, now, network, phase, warm, served, appended, before>>

\* health, after its log_event
Health(t) ==
    /\ thr[t].pc = "health"
    /\ Respond(t, Json([status |-> "healthy",
                        service |-> "numerai-electric",
                        version |-> CONFIG.version,
                        uptime_seconds |-> Uptime,
                        requests_served |-> SYSTEM_STATE.request_count,
                        mode |-> "global"]))
    /\ UNCHANGED <<CONFIG, SYSTEM_STATE, now, network, phase, warm, served, appended, before>>

\* api_status: 'timestamp': datetime.datetime.now().isoformat()
StatusStamp(t) ==
    /\ thr[t].pc = "status"
    /\ thr' = [thr EXCEPT ![t].stamp = now, ![t].pc = "status_body"]
    /\ now' = now + 1
    /\ UNCHANGED <<CONFIG, SYSTEM_STATE, network, phase, warm, served, appended, before>>

StatusRedactingConfig(t) ==
    /\ thr[t].pc = "status_body"
    /\ CONFIG' = [CONFIG EXCEPT !.public_ip = "hidden"]
    /\ thr' = [thr EXCEPT ![t] = [IdleThread EXCEPT
                  !.pc = "done",
                  !.route = thr[t].route,
                  !.format = thr[t].format,
                  !.incs = thr[t].incs,
                  !.resp = [status |-> 200, mimetype |-> "application/json",
                            body |-> [service |-> "numerai-electric",
                                      requests_served |-> SYSTEM_STATE.request_count,
                                      config |-> CONFIG']]]]
    /\ UNCHANGED <<SYSTEM_STATE, now, network, phase, warm, served, appended, before>>

\* api_status: the dict is built and serialised
Status(t) ==
    /\ thr[t].pc = "status_body"
    /\ Respond(t, Json([service |-> "numerai-electric",
                        status |-> "running",
                        version |-> CONFIG.version,
                        timestamp |-> IsoFormat(thr[t].stamp),
                        uptime_seconds |-> Uptime,
                        requests_served |-> SYSTEM_STATE.request_count,
                        config |-> CONFIG,
                        numerai_status |-> SYSTEM_STATE.numerai_status]))
    /\ UNCHANGED <<CONFIG, SYSTEM_STATE, now, network, phase, warm, served, appended, before>>

\* the views that log an event and return a canned payload
StampedRoutes == {"/api/predictions", "/api/signals", "/api/test"}

StaticBody(route, stamp) ==
    CASE route = "/api/numerai" ->
            [tournament |-> "numerai_tournament_123",
             user_data |-> "electric_trader", models |-> "ensemble-v1"]
      [] route = "/api/predictions" ->
            [predictions |-> [count |-> 50000, generated_at |-> IsoFormat(stamp),
                              model |-> "ensemble-v1"],
             summary |-> "0.501/0.124/0.068"]
      [] route = "/api/signals" ->
            [signals |-> <<[symbol |-> "BTC-USD", signal |-> "BUY"],
                           [symbol |-> "ETH-USD", signal |-> "HOLD"],
                           [symbol |-> "SOL-USD", signal |-> "SELL"]>>,
             generated_at |-> IsoFormat(stamp),
             strategy |-> "ensemble-momentum", risk_level |-> "moderate"]
      [] route = "/api/predict" ->
            [status |-> "success", predictions |-> 50000, model |-> "ensemble-v1"]
      [] route = "/api/train" ->
            [status |-> "started", model |-> "ensemble-v2", eta_minutes |-> 45]
      [] route = "/api/test" ->
            [status |-> "success", timestamp |-> IsoFormat(stamp)]
      [] route = "/api/repl" ->
            [page |-> "Numerai Electric REPL"]

Static(t) ==
    /\ thr[t].pc = "static"
    /\ Respond(t, IF thr[t].route = "/api/repl"
                  THEN Html(StaticBody(thr[t].route, now))
                  ELSE Json(StaticBody(thr[t].route, now)))
    /\ now' = IF thr[t].route \in StampedRoutes THEN now + 1 ELSE now
    /\ UNCHANGED <<CONFIG, SYSTEM_STATE, network, phase, warm, served, appended, before>>

\* index: request_count=SYSTEM_STATE['request_count']
IndexCount(t) ==
    /\ thr[t].pc = "index_count"
    /\ thr' = [thr EXCEPT ![t].count = SYSTEM_STATE.request_count,
                          ![t].pc = "index_logs"]
    /\ UNCHANGED <<CONFIG, SYSTEM_STATE, now, network, phase, warm, served, appended, before>>

recent_logs_oldest(logs) ==
    IF Len(logs) <= IndexShown THEN logs ELSE SubSeq(logs, 1, IndexShown)

\* SYSTEM_STATE['logs'][-20:]
recent_logs(logs) == SliceLast(logs, IndexShown)

IndexLogsDestructive(t) ==
    /\ thr[t].pc = "index_logs"
    /\ SYSTEM_STATE' = [SYSTEM_STATE EXCEPT !.logs = recent_logs(@)]
    /\ thr' = [thr EXCEPT ![t] = [IdleThread EXCEPT
                  !.pc = "done",
                  !.route = thr[t].route,
                  !.format = thr[t].format,
                  !.incs = thr[t].incs,
                  !.resp = [status |-> 200, mimetype |-> "text/html",
                            body |-> [config |-> CONFIG,
                                      request_count |-> thr[t].count,
                                      model_count |-> 3,
                                      logs |-> SYSTEM_STATE'.logs]]]]
    /\ UNCHANGED <<CONFIG, now, network, phase, warm, served, appended, before>>

\* index: logs=SYSTEM_STATE['logs'][-20:], and the page is rendered
IndexLogs(t) ==
    /\ thr[t].pc = "index_logs"
    /\ Respond(t, Html([config |-> CONFIG,
                        request_count |-> thr[t].count,
                        model_count |-> 3,
                        logs |-> recent_logs(SYSTEM_STATE.logs)]))
    /\ UNCHANGED <<CONFIG, SYSTEM_STATE, now, network, phase, warm, served, appended, before>>

logs_text_recent(logs) == Join("\n", SliceLast(logs, IndexShown))

\* api_logs, format == 'download': '\n'.join(SYSTEM_STATE['logs'])
logs_text(logs) == Join("\n", logs)

LogsDownload(t) ==
    /\ thr[t].pc = "logs_download"
    /\ Respond(t, [status |-> 200, mimetype |-> "text/plain",
                   disposition |-> "attachment; filename=numerai-electric-logs.txt",
                   body |-> [text |-> logs_text(SYSTEM_STATE.logs)]])
    /\ UNCHANGED <<CONFIG, SYSTEM_STATE, now, network, phase, warm, served, appended, before>>

\* api_logs, any other format: 'logs': SYSTEM_STATE['logs'] puts the list
\* itself, not a copy, into the dict
LogsRef(t) ==
    /\ thr[t].pc = "logs_ref"
    /\ thr' = [thr EXCEPT ![t].live = TRUE, ![t].pc = "logs_len"]
    /\ UNCHANGED <<CONFIG, SYSTEM_STATE, now, network, phase, warm, served, appended, before>>

\* 'total_entries': len(SYSTEM_STATE['logs'])
LogsLen(t) ==
    /\ thr[t].pc = "logs_len"
    /\ thr' = [thr EXCEPT ![t].total = Len(SYSTEM_STATE.logs),
                          ![t].pc = "logs_stamp"]
    /\ UNCHANGED <<CONFIG, SYSTEM_STATE, now, network, phase, warm, served, appended, before>>

\* 'last_updated': datetime.datetime.now().isoformat()
LogsStamp(t) ==
    /\ thr[t].pc = "logs_stamp"
    /\ thr' = [thr EXCEPT ![t].stamp = now, ![t].pc = "logs_jsonify"]
    /\ now' = now + 1
    /\ UNCHANGED <<CONFIG, SYSTEM_STATE, network, phase, warm, served, appended, before>>

\* the list a thread holds: the dict's list while the dict still names it
Held(t) == IF thr[t].live THEN SYSTEM_STATE.logs ELSE thr[t].list

\* jsonify serialises the dict, reading the list it holds
LogsJsonify(t) ==
    /\ thr[t].pc = "logs_jsonify"
    /\ Respond(t, Json([logs |-> Held(t),
                        total_entries |-> thr[t].total,
                        last_updated |-> IsoFormat(thr[t].stamp)]))
    /\ UNCHANGED <<CONFIG, SYSTEM_STATE, now, network, phase, warm, served, appended, before>>

\* the response has been sent and the thread ends
Close(t) ==
    /\ thr[t].pc = "done"
    /\ thr' = [thr EXCEPT ![t] = IdleThread]
    /\ UNCHANGED <<CONFIG, SYSTEM_STATE, now, network, phase, warm, served, appended, before>>

(***************************************************************************)
(* Specifications                                                          *)
(***************************************************************************)
\* the threaded server: handlers overlap
Next ==
    \/ InitializeSystem
    \/ OpenDoors
    \/ \E t \in Threads : WarmRequest(t)
    \/ \E t \in Threads, rq \in OverlapRequests : OverlapRequest(t, rq)
    \/ \E t \in Threads : IncrementLoad(t)
    \/ \E t \in Threads : IncrementStore(t)
    \/ \E t \in Threads : LogTimestamp(t)
    \/ \E t \in Threads : LogAppend(t)
    \/ \E t \in Threads : LogCheck(t)
    \/ \E t \in Threads : LogSlice(t)
    \/ \E t \in Threads : LogStore(t)
    \/ \E t \in Threads : NotFound(t)
    \/ \E t \in Threads : Health(t)
    \/ \E t \in Threads : Static(t)
    \/ \E t \in Threads : IndexCount(t)
    \/ \E t \in Threads : IndexLogs(t)
    \/ \E t \in Threads : LogsDownload(t)
    \/ \E t \in Threads : LogsRef(t)
    \/ \E t \in Threads : LogsLen(t)
    \/ \E t \in Threads : LogsStamp(t)
    \/ \E t \in Threads : LogsJsonify(t)
    \/ \E t \in Threads : Close(t)

Spec == Init /\ [][Next]_vars

\* requests served one at a time, over every route
SerialNext ==
    \/ InitializeSystem
    \/ OpenDoors
    \/ \E t \in Threads : WarmRequest(t)
    \/ \E t \in Threads, rq \in Requests : SerialRequest(t, rq)
    \/ \E t \in Threads : IncrementLoad(t)
    \/ \E t \in Threads : IncrementStore(t)
    \/ \E t \in Threads : LogTimestamp(t)
    \/ \E t \in Threads : LogAppend(t)
    \/ \E t \in Threads : LogCheck(t)
    \/ \E t \in Threads : LogSlice(t)
    \/ \E t \in Threads : LogStore(t)
    \/ \E t \in Threads : NotFound(t)
    \/ \E t \in Threads : Health(t)
    \/ \E t \in Threads : StatusStamp(t)
    \/ \E t \in Threads : Status(t)
    \/ \E t \in Threads : Static(t)
    \/ \E t \in Threads : IndexCount(t)
    \/ \E t \in Threads : IndexLogs(t)
    \/ \E t \in Threads : LogsDownload(t)
    \/ \E t \in Threads : LogsRef(t)
    \/ \E t \in Threads : LogsLen(t)
    \/ \E t \in Threads : LogsStamp(t)
    \/ \E t \in Threads : LogsJsonify(t)
    \/ \E t \in Threads : Close(t)

SerialSpec == Init /\ [][SerialNext]_vars

(***************************************************************************)
(* Properties                                                              *)
(***************************************************************************)
\* a thread is inside log_event, past its append
InLogEvent(t) == thr[t].pc \in {"log_check", "log_slice", "log_store"}

\* the number of requests the server has accepted
Accepted == warm + served

\* the times x occurs in the sequence l
Occurrences(l, x) == Cardinality({i \in 1..Len(l) : l[i] = x})

\* the pieces of a text between its "\n" pieces; no line for the empty text
RECURSIVE Lines(_, _)
Lines(text, line) ==
    IF text = <<>> THEN (IF line = "" THEN <<>> ELSE <<line>>)
    ELSE IF text[1] = "\n" THEN <<line>> \o Lines(SubSeq(text, 2, Len(text)), "")
    ELSE Lines(SubSeq(text, 2, Len(text)), line \o text[1])

\* C1: with requests served one at a time, whenever no log_event call is
\* under way the log holds exactly the last min(N, 50) of the N entries
\* appended so far, oldest first; after 60 appends it holds 50 entries, the
\* first being the 11th appended.
C1_LogHoldsLastFifty ==
    (\A t \in Threads : ~InLogEvent(t)) =>
        LET n == Len(appended)
            k == IF n < 50 THEN n ELSE 50
        IN  /\ Len(SYSTEM_STATE.logs) = k
            /\ \A i \in 1..k : SYSTEM_STATE.logs[i] = appended[n - k + i]
            /\ n = 60 => SYSTEM_STATE.logs[1] = appended[11]

C1_Witness ==
    /\ AllIdle
    /\ Len(appended) = 60
    /\ Len(SYSTEM_STATE.logs) = 50
    /\ SYSTEM_STATE.logs[1] = appended[11]

\* C2: once K requests have been accepted and all of them answered,
\* request_count is exactly K.
C2_CountEqualsRequests ==
    AllIdle => SYSTEM_STATE.request_count = Accepted

\* C3: no answer of a reader shows a log of more than 50 entries: neither
\* the total_entries or the logs of /api/logs, nor the lines of its
\* download.
C3_ReaderSeesAtMostCap ==
    \A t \in Threads :
        (thr[t].pc = "done" /\ thr[t].route = "/api/logs") =>
            IF thr[t].format = "download"
            THEN Len(Lines(thr[t].resp.body.text, "")) <= 50
            ELSE /\ thr[t].resp.body.total_entries <= 50
                 /\ Len(thr[t].resp.body.logs) <= 50

\* C4: once every log_event call has finished, each of the 50 entries most
\* recently appended is in the log exactly once.
C4_NoEntryLost ==
    AllIdle =>
        \A i \in 1..Len(appended) :
            i > Len(appended) - 50 =>
                Occurrences(SYSTEM_STATE.logs, appended[i]) = 1

\* C5: no step changes request_count to a smaller value.
C5_CountNeverDecreases ==
    [][SYSTEM_STATE'.request_count >= SYSTEM_STATE.request_count]_vars

\* C6: increment_request_count is invoked exactly once for every request,
\* a request for an unknown URL included, and before the request reaches
\* its view (or its 404 answer).
C6_IncrementOncePerRequest ==
    \A t \in Threads :
        /\ thr[t].incs <= 1
        /\ thr[t].pc \notin {"idle", "before_request"} => thr[t].incs = 1

C6_Witness ==
    \E t \in Threads :
        /\ thr[t].pc = "done"
        /\ thr[t].route = UnknownPath
        /\ thr[t].resp.status = 404
        /\ thr[t].incs = 1

\* C7: with requests served one at a time from a fresh process, the
\* requests_served of the answer to the n-th request (/health or
\* /api/status) is n.
C7_RequestsServedCountsRequest ==
    \A t \in Threads :
        (thr[t].pc = "done" /\ thr[t].route \in {"/health", "/api/status"}) =>
            thr[t].resp.body.requests_served = Accepted

\* /health, then /api/status, which answers requests_served = 2
C7_Witness ==
    \E t \in Threads :
        /\ Accepted = 2
        /\ Len(appended) = 4
        /\ appended[4] = "3 - Health check requested"
        /\ thr[t].pc = "done"
        /\ thr[t].route = "/api/status"
        /\ thr[t].resp.body.requests_served = 2

\* C8: every step of a request for /api/logs?format=download leaves the log
\* as it is, and its answer is text/plain with one line per entry of the
\* log as it stands when the view reads it, oldest first.
C8_DownloadIsTheLog ==
    [][\A t \in Threads :
          (/\ thr[t].route = "/api/logs"
           /\ thr[t].format = "download"
           /\ thr'[t] # thr[t])
          => /\ SYSTEM_STATE'.logs = SYSTEM_STATE.logs
             /\ thr'[t].pc = "done" =>
                   /\ thr'[t].resp.status = 200
                   /\ thr'[t].resp.mimetype = "text/plain"
                   /\ Lines(thr'[t].resp.body.text, "") = SYSTEM_STATE.logs]_vars

C8_Witness ==
    \E t \in Threads :
        /\ thr[t].pc = "done"
        /\ thr[t].format = "download"
        /\ thr[t].resp.mimetype = "text/plain"
        /\ Len(SYSTEM_STATE.logs) = 50
        /\ Lines(thr[t].resp.body.text, "") = SYSTEM_STATE.logs

\* C9, as claimed: once start-up has run, a failed public-IP lookup has left
\* public_ip = "unknown", and no exception has left get_public_ip.
C9_LookupFailureGivesUnknown ==
    (phase # "boot" /\ network.http.raised) =>
        /\ phase # "crashed"
        /\ CONFIG.public_ip = "unknown"

\* C9, amended: no exception leaves get_public_ip; when the HTTP lookup and
\* the socket probe both fail public_ip is "unknown", and when only the
\* HTTP lookup fails it is the address the socket probe found.
C9_FallbackChain ==
    /\ phase # "crashed"
    /\ (phase # "boot" /\ network.http.raised /\ network.sock.raised)
          => CONFIG.public_ip = "unknown"
    /\ (phase # "boot" /\ network.http.raised /\ ~network.sock.raised)
          => CONFIG.public_ip = network.sock.ip

C9_Witness ==
    /\ phase = "warm"
    /\ network.http.raised
    /\ network.sock.raised
    /\ CONFIG.public_ip = "unknown"

\* C10: a request for /api/logs whose format is absent or anything but
\* "download" is answered 200 with the JSON form {logs, total_entries,
\* last_updated}.
C10_OtherFormatsGetJson ==
    \A t \in Threads :
        (thr[t].pc = "done" /\ thr[t].route = "/api/logs"
            /\ thr[t].format # "download") =>
            /\ thr[t].resp.status = 200
            /\ thr[t].resp.mimetype = "application/json"
            /\ DOMAIN thr[t].resp.body = {"logs", "total_entries", "last_updated"}

C10_Witness ==
    \E t \in Threads :
        /\ thr[t].pc = "done"
        /\ thr[t].route = "/api/logs"
        /\ thr[t].format = "csv"
        /\ thr[t].resp.status = 200
        /\ thr[t].resp.mimetype = "application/json"
        /\ thr[t].resp.body.total_entries = Len(thr[t].resp.body.logs)

\* new is old with one entry for message added as its newest, the oldest
\* entry dropped when old was full
OneEntryAdded(old, new, message) ==
    /\ new # <<>>
    /\ \E ts \in 0..now : new[Len(new)] = ToString(ts) \o " - " \o message
    /\ new[Len(new)] = appended[Len(appended)]
    /\ IF Len(old) < 50
       THEN new = Append(old, new[Len(new)])
       ELSE new = Append(SubSeq(old, 2, Len(old)), new[Len(new)])

\* SYSTEM_STATE differs from what the request met in request_count, which is
\* one more, and in nothing else but the log
OnlyCountAndLog ==
    SYSTEM_STATE = [before EXCEPT !.request_count = @ + 1,
                                  !.logs = SYSTEM_STATE.logs]

\* C11, as claimed: a request for /api/repl, served alone, leaves the event
\* log as it met it.
C11_ReplLeavesLogAlone ==
    \A t \in Threads :
        (thr[t].pc = "done" /\ thr[t].route = "/api/repl") =>
            SYSTEM_STATE.logs = before.logs

\* C11, amended: a request for /api/repl, served alone, adds one entry
\* "REPL interface accessed" to the event log as its newest and increments
\* the counter by one; it changes nothing else of SYSTEM_STATE.
C11_ReplLogsOneEvent ==
    \A t \in Threads :
        (thr[t].pc = "done" /\ thr[t].route = "/api/repl") =>
            /\ OnlyCountAndLog
            /\ OneEntryAdded(before.logs, SYSTEM_STATE.logs,
                             "REPL interface accessed")

C11_Witness ==
    \E t \in Threads :
        /\ thr[t].pc = "done"
        /\ thr[t].route = "/api/repl"
        /\ thr[t].resp.mimetype = "text/html"
        /\ Len(before.logs) = 50
        /\ Len(SYSTEM_STATE.logs) = 50
        /\ SYSTEM_STATE.logs # before.logs

\* C12: a request for /health, /api/numerai, /api/predictions,
\* /api/signals, /api/predict, /api/train or /api/test, served alone, adds
\* exactly one entry to the event log as its newest (the oldest is dropped
\* when the log was full) and increments the counter by one; it changes
\* nothing else of SYSTEM_STATE.
C12_LoggingRoutesAddOneEntry ==
    \A t \in Threads :
        (thr[t].pc = "done"
            /\ thr[t].route \in {"/health", "/api/numerai", "/api/predictions",
                                 "/api/signals", "/api/predict", "/api/train",
                                 "/api/test"}) =>
            /\ OnlyCountAndLog
            /\ OneEntryAdded(before.logs, SYSTEM_STATE.logs,
                             LogMessage[thr[t].route])

C12_Witness ==
    \E t \in Threads :
        /\ thr[t].pc = "done"
        /\ thr[t].route = "/api/train"
        /\ Len(before.logs) = 49
        /\ Len(SYSTEM_STATE.logs) = 50
        /\ SYSTEM_STATE.request_count = before.request_count + 1

\* C13: a request for /, /api/status or /api/logs (either format), served
\* alone, leaves the event log as it met it; the only change to
\* SYSTEM_STATE is the counter, one more.
C13_ReadRoutesChangeOnlyCount ==
    \A t \in Threads :
        (thr[t].pc = "done" /\ thr[t].route \in {"/", "/api/status", "/api/logs"}) =>
            /\ SYSTEM_STATE.logs = before.logs
            /\ SYSTEM_STATE = [before EXCEPT !.request_count = @ + 1]

C13_Witness ==
    \E t \in Threads :
        /\ thr[t].pc = "done"
        /\ thr[t].route = "/"
        /\ Len(thr[t].resp.body.logs) = 20
        /\ Len(SYSTEM_STATE.logs) = 50
        /\ SYSTEM_STATE.logs = before.logs

\* the messages log_event is called with
KnownMessages ==
    {LogMessage[r] : r \in LogRoutes}
    \cup {StartupMessages(CONFIG)[i] : i \in 1..3}

\* the clock value at the head of an entry
TimestampOf(e) ==
    CHOOSE ts \in 0..now : \E m \in KnownMessages : e = ToString(ts) \o " - " \o m

\* C14: in every state no entry of the event log has an earlier timestamp
\* than an entry before it.
C14_LogIsChronological ==
    \A i \in 1..(Len(SYSTEM_STATE.logs) - 1) :
        TimestampOf(SYSTEM_STATE.logs[i]) <= TimestampOf(SYSTEM_STATE.logs[i + 1])

\* C15: in every JSON answer of /api/logs, total_entries is the number of
\* entries of its logs field.
C15_TotalMatchesLogs ==
    \A t \in Threads :
        (thr[t].pc = "done" /\ thr[t].route = "/api/logs"
            /\ thr[t].format # "download") =>
            thr[t].resp.body.total_entries = Len(thr[t].resp.body.logs)

\* C16: served alone, / renders the min(20, L) entries of a log of length
\* L that were appended last, in the log's order, newest last: the whole
\* log when L is at most 20.
C16_IndexShowsLastTwenty ==
    \A t \in Threads :
        (thr[t].pc = "done" /\ thr[t].route = "/") =>
            LET logs == SYSTEM_STATE.logs
                shown == thr[t].resp.body.logs
                k == IF Len(logs) < 20 THEN Len(logs) ELSE 20
            IN  /\ Len(shown) = k
                /\ \A i \in 1..k : shown[i] = logs[Len(logs) - k + i]
                /\ Len(logs) <= 20 => shown = logs

C16_Witness ==
    \E t \in Threads :
        /\ thr[t].pc = "done"
        /\ thr[t].route = "/"
        /\ Len(SYSTEM_STATE.logs) = 50
        /\ Len(thr[t].resp.body.logs) = 20
        /\ thr[t].resp.body.logs[20] = SYSTEM_STATE.logs[50]
        /\ thr[t].resp.body.logs[1] = SYSTEM_STATE.logs[31]

\* C17: the only step that changes CONFIG is initialize_system, before the
\* server starts, and it changes public_ip alone; no step of a request
\* handler changes CONFIG.
C17_ConfigSetOnceAtStartup ==
    [][CONFIG' # CONFIG =>
          /\ phase = "boot"
          /\ AllIdle
          /\ CONFIG.public_ip = None
          /\ CONFIG' = [CONFIG EXCEPT !.public_ip = CONFIG'.public_ip]]_vars

C17_Witness ==
    /\ phase = "open"
    /\ AllIdle
    /\ served >= 2
    /\ SYSTEM_STATE.request_count = served
    /\ CONFIG.public_ip = "203.0.113.7"
    /\ CONFIG.version = "3.0-numerai-electric"

====
